---- MODULE Spec2Model ----
(***************************************************************************)
(* A model of shell.cpp: a command interpreter that reads lines, splits    *)
(* them into words, and runs each command in a child process, one at a     *)
(* time (serial mode) or all at once with a batch wait at the end          *)
(* (parallel mode).  SERIAL <file> and PARALLEL <file> run a nested        *)
(* processCmds over a script file; exit ends the loop.                     *)
(*                                                                         *)
(* A line is a sequence of one-character strings, a word likewise.  The    *)
(* calls of processCmds form a chain (a call makes at most one nested      *)
(* call, from processFirstWord, and breaks out of its loop when it         *)
(* returns), so the call stack is the sequence sess: sess[k+1] is the call *)
(* nested in sess[k].  A finished call stays in sess as "Terminated".      *)
(***************************************************************************)
EXTENDS Integers, Sequences, FiniteSets, TLC

VARIABLES
    sess,     \* the chain of processCmds calls, outermost first
    procs,    \* child processes by pid (1..Len(procs))
    log,      \* what the shell did, in order: launches and awaits
    src,      \* the input sources: what has been read of each so far
    crashed,  \* the shell process died (undefined behaviour took that turn)
    inLine,   \* split on its own: the line it is called with
    outWords, \* split on its own: the words it returned
    pc        \* "shell" when the shell runs; "split", "return" for split alone

vars == <<sess, procs, log, src, crashed, inLine, outWords, pc>>

\* The variables of split run on its own, which the shell leaves alone.
tok == <<inLine, outWords, pc>>

(***************************************************************************)
(* Bounds of the model.                                                    *)
(***************************************************************************)
MaxLines == 4     \* lines of input, over all sources
MaxDepth == 3     \* nested processCmds calls
MaxLen == 5       \* characters of a line given to split on its own

ExitCodes == {0, 1}

\* The programs run are deterministic: a alone succeeds, a with arguments fails.
ExitCodeOf(command) == IF Len(command) = 1 THEN 0 ELSE 1

(***************************************************************************)
(* Characters, words and lines.                                            *)
(***************************************************************************)
Delim == "\""
Escape == "\\"
Whitespace == {" ", "\t"}
NUL == "NUL"            \* what s[0] is for an empty std::string

wExit == <<"e", "x", "i", "t">>
wSerial == <<"S", "E", "R", "I", "A", "L">>
wParallel == <<"P", "A", "R", "A", "L", "L", "E", "L">>

\* The script files that exist; any other path fails to open.
Files == {"f", "g"}
Stdin == "stdin"
NoFile == "none"

\* The lines an input source may hold.
Lines ==
    { <<"#", "a">>,                           \* comment
      wExit,
      <<"a">>,                                \* a command
      <<"a", " ", "b", " ", "a">>,            \* a word equal to the last one
      wSerial \o <<" ", "f">>,
      wParallel \o <<" ", "f">>,
      wParallel \o <<" ", "g">>,
      wParallel \o <<" ", "x">>,              \* names no file
      wSerial }                               \* no path word

(***************************************************************************)
(* split (lines 47-56): words read with operator>> and std::quoted.        *)
(***************************************************************************)
RECURSIVE SkipWs(_, _)
SkipWs(line, i) ==
    IF i <= Len(line) /\ line[i] \in Whitespace THEN SkipWs(line, i + 1) ELSE i

\* is >> word for an unquoted word starting at i: the index after it.
RECURSIVE WordEnd(_, _)
WordEnd(line, i) ==
    IF i <= Len(line) /\ line[i] \notin Whitespace THEN WordEnd(line, i + 1) ELSE i

\* The body of a quoted word from index i on (after the opening delimiter):
\* [ok, word, next]; ok is FALSE when the input ends before the closing
\* delimiter, which leaves the stream failed.
RECURSIVE Quoted(_, _, _)
Quoted(line, i, acc) ==
    IF i > Len(line) THEN [ok |-> FALSE, word |-> acc, next |-> i]
    ELSE IF line[i] = Escape
         THEN IF i + 1 > Len(line)
              THEN [ok |-> FALSE, word |-> acc, next |-> i + 1]
              ELSE Quoted(line, i + 2, Append(acc, line[i + 1]))
    ELSE IF line[i] = Delim THEN [ok |-> TRUE, word |-> acc, next |-> i + 1]
    ELSE Quoted(line, i + 1, Append(acc, line[i]))

RECURSIVE SplitFrom(_, _, _)
SplitFrom(line, i, words) ==
    LET j == SkipWs(line, i)
    IN  IF j > Len(line) THEN words
        ELSE IF line[j] = Delim
             THEN LET q == Quoted(line, j + 1, <<>>)
                  IN  IF q.ok THEN SplitFrom(line, q.next, Append(words, q.word))
                      ELSE words
        ELSE LET e == WordEnd(line, j)
             IN  SplitFrom(line, e, Append(words, SubSeq(line, j, e - 1)))

\* A variant that takes the whole line as one word (getline for operator>>).
splitWholeLine(line) == IF line = <<>> THEN <<>> ELSE <<line>>

split(line) == SplitFrom(line, 1, <<>>)

(***************************************************************************)
(* checkIgnore (lines 36-39).                                              *)
(***************************************************************************)
FirstChar(word) == IF Len(word) = 0 THEN NUL ELSE word[1]

checkIgnoreNoComment(line) == line = <<>>

checkIgnore(line) ==
    IF line = <<>> THEN TRUE ELSE FirstChar(line[1]) = "#"

(***************************************************************************)
(* processFirstWord (lines 121-135): what the first word asks for.         *)
(***************************************************************************)
processFirstWordNoExit(line) ==
    IF line[1] = wSerial THEN "serial"
    ELSE IF line[1] = wParallel THEN "parallel"
    ELSE "command"

processFirstWord(line) ==
    IF line[1] = wExit THEN "exit"
    ELSE IF line[1] = wSerial THEN "serial"
    ELSE IF line[1] = wParallel THEN "parallel"
    ELSE "command"

\* The mode flag processFirstWord passes to the nested processCmds.
NestedParModeSerial(kind) == FALSE

NestedParMode(kind) == kind = "parallel"

\* A variant in which a path that names no file opens the script f.
OpenFileAny(path) == IF path = <<"g">> THEN "g" ELSE "f"

\* std::ifstream in(line[1]): the source the nested call reads.
OpenFile(path) ==
    IF path = <<"f">> THEN "f" ELSE IF path = <<"g">> THEN "g" ELSE NoFile

(***************************************************************************)
(* The text after "Running: " (lines 64-70 and 89-95): a space follows     *)
(* every word that differs from the last word.                             *)
(***************************************************************************)
RECURSIVE PrintWords(_, _)
PrintWords(command, i) ==
    IF i > Len(command) THEN <<>>
    ELSE command[i]
         \o (IF command[i] # command[Len(command)] THEN <<" ">> ELSE <<>>)
         \o PrintWords(command, i + 1)

RunningText(command) == PrintWords(command, 1)

(***************************************************************************)
(* ChildProcess (ChildProcess.h): forkNexec starts a child and returns its *)
(* pid at once; wait blocks until that child has ended.                    *)
(***************************************************************************)
forkNexec(ps, k, command) ==
    Append(ps, [owner |-> k, argv |-> command, st |-> "running",
                code |-> 0, rank |-> 0])

Reap(ps, pid) == [ps EXCEPT ![pid].st = "reaped"]

Ended(ps) == {p \in 1..Len(ps) : ps[p].st # "running"}

(***************************************************************************)
(* Sessions: one record per call of processCmds (lines 141-162).           *)
(***************************************************************************)
NewSession(parMode, prompt, source) ==
    [parMode |-> parMode, prompt |-> prompt, src |-> source,
     rd |-> <<>>,          \* the lines getline has returned
     eof |-> FALSE,        \* is.eof()
     parPids |-> <<>>,     \* IntVec parPids
     di |-> 0,             \* elements of parPids the drain loop has passed
     wpid |-> 0,           \* the child cp.wait() is blocked on, serial mode
     prompts |-> 1,        \* times os << prompt has run
     launched |-> <<>>,    \* history: the pids this call has forked, in order
     awaited |-> <<>>,     \* history: the pids this call has waited for, in order
     st |-> "Reading"]

\* The call that is running: the innermost one that has not returned.
Live == {k \in 1..Len(sess) : sess[k].st # "Terminated"}
Active == IF Live = {} THEN 0 ELSE CHOOSE k \in Live : \A j \in Live : j <= k

\* The number of lines of input fixed so far.
RECURSIVE SumLines(_)
SumLines(S) ==
    IF S = {} THEN 0
    ELSE LET n == CHOOSE n \in S : TRUE
         IN  Len(src[n].lines) + SumLines(S \ {n})

LinesRevealed == SumLines(DOMAIN src)

\* The lines whose first word is SERIAL or PARALLEL.
IsDirective(l) ==
    LET w == split(l)
    IN  IF w = <<>> THEN FALSE ELSE w[1] \in {wSerial, wParallel}

Directives == {l \in Lines : IsDirective(l)}

\* The lines a source may turn out to hold where it has not been read yet.
\* Scripts are nested at most MaxDepth deep: a source first read by the
\* deepest call holds no directive.  A directive met at that depth is then
\* one of a source already read by an enclosing call, that is, a script that
\* includes itself: the recursion of processCmds has no end, and the model
\* stops there.
NewLines == IF Len(sess) < MaxDepth THEN Lines ELSE Lines \ Directives

\* What getline may return to session s: <<line, newline-terminated>>.
Readable(s) ==
    IF s.src = NoFile THEN {}
    ELSE IF s.eof THEN {}
    ELSE LET f == src[s.src]
             n == Len(s.rd)
         IN  IF n < Len(f.lines)
             THEN {<<f.lines[n + 1], (n + 1 < Len(f.lines)) \/ f.nl>>}
             ELSE IF f.closed \/ LinesRevealed >= MaxLines THEN {}
             ELSE NewLines \X BOOLEAN

\* getline fails: the source is at its end (or never opened).
AtEnd(s) ==
    IF s.src = NoFile THEN TRUE
    ELSE IF s.eof THEN TRUE
    ELSE Len(s.rd) = Len(src[s.src].lines)

\* The source after session s has read <<line, nl>> from it.
Reveal(s, in) ==
    IF s.src # NoFile /\ Len(s.rd) = Len(src[s.src].lines)
    THEN [src EXCEPT ![s.src] = [lines |-> Append(@.lines, in[1]),
                                 closed |-> ~in[2], nl |-> in[2]]]
    ELSE src

Close(s) ==
    IF s.src # NoFile THEN [src EXCEPT ![s.src].closed = TRUE] ELSE src

\* std::getline(is, line) succeeded (line 145).
Consume(s, in) == [s EXCEPT !.rd = Append(@, in[1]), !.eof = ~in[2]]

\* Back to the loop condition: the prompt is written, getline is next.
Continue(s) == [s EXCEPT !.st = "Reading", !.prompts = @ + 1, !.wpid = 0]


(***************************************************************************)
(* Leaving the loop.  Lines 159-161: in parallel mode the session waits    *)
(* for the children in parPids; otherwise processCmds returns.  When a     *)
(* nested call returns, processFirstWord returns false (lines 127, 132)    *)
(* and the enclosing loop breaks (lines 150-151) in the same way.          *)
(***************************************************************************)
\* The loop of waitForParalellCommands (line 107) has an element left.
\* A variant without the call of lines 159-161.
NeedsDrainNever(s) == FALSE

NeedsDrain(s) == s.parMode /\ s.di < Len(s.parPids)

RECURSIVE AfterLoop(_, _)
AfterLoop(ss, k) ==
    IF NeedsDrain(ss[k]) THEN [ss EXCEPT ![k].st = "Draining"]
    ELSE LET t == [ss EXCEPT ![k].st = "Terminated"]
         IN  IF k > 1 THEN AfterLoop(t, k - 1) ELSE t

\* A variant that returns from processCmds instead of breaking.
BreakReturns(ss, k) ==
    LET t == [ss EXCEPT ![k].st = "Terminated"]
    IN  IF k > 1 THEN AfterLoop(t, k - 1) ELSE t

\* break (line 151).
BreakLoop(ss, k) == AfterLoop(ss, k)

\* Line 153: which of runSerialCommand, runParallelCommand runs the command;
\* the first variant ignores parMode.
RunsSerialAlways(s) == TRUE

\* The test of line 153 inverted.
RunsSerialInverted(s) == s.parMode

RunsSerial(s) == ~s.parMode

\* parPids.push_back(pid) (line 99); the variant keeps only the new pid.
PushPidOnly(s, pid) == [s EXCEPT !.parPids = <<pid>>]

\* A variant in which the vector is not a local of the call (line 143) but
\* holds every pid forked so far.
PushPidAll(s, pid) == [s EXCEPT !.parPids = [i \in 1..pid |-> i]]

PushPid(s, pid) == [s EXCEPT !.parPids = Append(@, pid)]

\* for (int pid : parPids) (line 107): the element the drain waits for next;
\* the variant walks the vector from its end.
NextToReapBackwards(s) == s.parPids[Len(s.parPids) - s.di]

NextToReap(s) == s.parPids[s.di + 1]

LaunchEvent(k, pid, command) ==
    [t |-> "launch", sid |-> k, pid |-> pid, argv |-> command,
     text |-> RunningText(command), code |-> 0]

AwaitEvent(k, pid, code) ==
    [t |-> "await", sid |-> k, pid |-> pid, argv |-> <<>>,
     text |-> <<>>, code |-> code]

(***************************************************************************)
(* Initial state: main (lines 165-167) calls processCmds on std::cin in    *)
(* serial mode with the prompt "> ".  Nothing has been read yet; the       *)
(* content of each source is fixed the first time it is read.              *)
(***************************************************************************)
Init ==
    /\ sess = <<NewSession(FALSE, "> ", Stdin)>>
    /\ procs = <<>>
    /\ log = <<>>
    /\ src = [n \in {Stdin} \cup Files |->
                 [lines |-> <<>>, closed |-> FALSE, nl |-> TRUE]]
    /\ crashed = FALSE
    /\ inLine = <<>> /\ outWords = <<>> /\ pc = "shell"

(***************************************************************************)
(* One pass of the loop of processCmds, from getline to the next point     *)
(* where the shell blocks (getline, cp.wait, waitpid) or returns.          *)
(***************************************************************************)
\* getline fails (line 145): the loop ends.
GetlineFails ==
    /\ ~crashed /\ Active # 0
    /\ LET k == Active
           s == sess[k]
       IN  /\ s.st = "Reading"
           /\ AtEnd(s)
           /\ sess' = AfterLoop(sess, k)
           /\ src' = Close(s)
    /\ UNCHANGED <<procs, log, crashed>>
    /\ UNCHANGED tok

\* Lines 146-149: an ignored line.
ReadIgnore ==
    /\ ~crashed /\ Active # 0
    /\ LET k == Active
           s == sess[k]
       IN  /\ s.st = "Reading"
           /\ \E in \in Readable(s) :
                /\ checkIgnore(split(in[1]))
                /\ sess' = [sess EXCEPT ![k] = Continue(Consume(s, in))]
                /\ src' = Reveal(s, in)
    /\ UNCHANGED <<procs, log, crashed>>
    /\ UNCHANGED tok

\* Lines 122, 150-151: exit.
ReadExit ==
    /\ ~crashed /\ Active # 0
    /\ LET k == Active
           s == sess[k]
       IN  /\ s.st = "Reading"
           /\ \E in \in Readable(s) :
                /\ ~checkIgnore(split(in[1]))
                /\ processFirstWord(split(in[1])) = "exit"
                /\ sess' = BreakLoop([sess EXCEPT ![k] = Consume(s, in)], k)
                /\ src' = Reveal(s, in)
    /\ UNCHANGED <<procs, log, crashed>>
    /\ UNCHANGED tok

\* Lines 123-125, 128-130: SERIAL path / PARALLEL path starts a nested call.
ReadNested ==
    /\ ~crashed /\ Active # 0
    /\ Len(sess) < MaxDepth
    /\ LET k == Active
           s == sess[k]
       IN  /\ s.st = "Reading"
           /\ \E in \in Readable(s) :
                \E line \in {split(in[1])} :
                    /\ ~checkIgnore(line)
                    /\ processFirstWord(line) \in {"serial", "parallel"}
                    /\ Len(line) >= 2
                    /\ sess' = Append(
                          [sess EXCEPT ![k] = [Consume(s, in) EXCEPT !.st = "Nested"]],
                          NewSession(NestedParMode(processFirstWord(line)), "",
                                     OpenFile(line[2])))
                    /\ src' = Reveal(s, in)
    /\ UNCHANGED <<procs, log, crashed>>
    /\ UNCHANGED tok

\* Lines 124, 129 with a one-word line: line[1] is read past the end of the
\* vector.  The string found there may name a file, or no file ...
ReadMalformedNested ==
    /\ ~crashed /\ Active # 0
    /\ Len(sess) < MaxDepth
    /\ LET k == Active
           s == sess[k]
       IN  /\ s.st = "Reading"
           /\ \E in \in Readable(s), garbage \in Files \cup {NoFile} :
                \E line \in {split(in[1])} :
                    /\ ~checkIgnore(line)
                    /\ processFirstWord(line) \in {"serial", "parallel"}
                    /\ Len(line) = 1
                    /\ sess' = Append(
                          [sess EXCEPT ![k] = [Consume(s, in) EXCEPT !.st = "Nested"]],
                          NewSession(NestedParMode(processFirstWord(line)), "",
                                     garbage))
                    /\ src' = Reveal(s, in)
    /\ UNCHANGED <<procs, log, crashed>>
    /\ UNCHANGED tok

\* ... or the read kills the process.
ReadMalformedCrash ==
    /\ ~crashed /\ Active # 0
    /\ LET k == Active
           s == sess[k]
       IN  /\ s.st = "Reading"
           /\ \E in \in Readable(s) :
                \E line \in {split(in[1])} :
                    /\ ~checkIgnore(line)
                    /\ processFirstWord(line) \in {"serial", "parallel"}
                    /\ Len(line) = 1
                    /\ sess' = [sess EXCEPT ![k] = Consume(s, in)]
                    /\ src' = Reveal(s, in)
    /\ crashed' = TRUE
    /\ UNCHANGED <<procs, log>>
    /\ UNCHANGED tok

\* Lines 150-151: a command read while getline reached the end of input.
ReadEofBreak ==
    /\ ~crashed /\ Active # 0
    /\ LET k == Active
           s == sess[k]
       IN  /\ s.st = "Reading"
           /\ \E in \in Readable(s) :
                /\ ~checkIgnore(split(in[1]))
                /\ processFirstWord(split(in[1])) = "command"
                /\ ~in[2]
                /\ sess' = BreakLoop([sess EXCEPT ![k] = Consume(s, in)], k)
                /\ src' = Reveal(s, in)
    /\ UNCHANGED <<procs, log, crashed>>
    /\ UNCHANGED tok

\* Lines 153-154 and runSerialCommand up to cp.wait() (lines 62-77).
ReadSerialCommand ==
    /\ ~crashed /\ Active # 0
    /\ LET k == Active
           s == sess[k]
           pid == Len(procs) + 1
       IN  /\ s.st = "Reading"
           /\ RunsSerial(s)
           /\ \E in \in Readable(s) :
                \E line \in {split(in[1])} :
                    /\ ~checkIgnore(line)
                    /\ processFirstWord(line) = "command"
                    /\ in[2]
                    /\ procs' = forkNexec(procs, k, line)
                    /\ log' = Append(log, LaunchEvent(k, pid, line))
                    /\ sess' = [sess EXCEPT ![k] =
                                  [Consume(s, in) EXCEPT !.st = "Waiting", !.wpid = pid,
                                                         !.launched = Append(@, pid)]]
                    /\ src' = Reveal(s, in)
    /\ UNCHANGED crashed
    /\ UNCHANGED tok

\* cp.wait() returns and the exit code is printed (lines 77-78).
SerialWait ==
    /\ ~crashed /\ Active # 0
    /\ LET k == Active
           s == sess[k]
       IN  /\ s.st = "Waiting"
           /\ procs[s.wpid].st = "exited"
           /\ procs' = Reap(procs, s.wpid)
           /\ log' = Append(log, AwaitEvent(k, s.wpid, procs[s.wpid].code))
           /\ sess' = [sess EXCEPT ![k] =
                         Continue([s EXCEPT !.awaited = Append(@, s.wpid)])]
    /\ UNCHANGED <<src, crashed>>
    /\ UNCHANGED tok

\* Lines 155-156 and runParallelCommand (lines 86-100).
ReadParallelCommand ==
    /\ ~crashed /\ Active # 0
    /\ LET k == Active
           s == sess[k]
           pid == Len(procs) + 1
       IN  /\ s.st = "Reading"
           /\ ~RunsSerial(s)
           /\ \E in \in Readable(s) :
                \E line \in {split(in[1])} :
                    /\ ~checkIgnore(line)
                    /\ processFirstWord(line) = "command"
                    /\ in[2]
                    /\ procs' = forkNexec(procs, k, line)
                    /\ log' = Append(log, LaunchEvent(k, pid, line))
                    /\ sess' = [sess EXCEPT ![k] =
                                  Continue(PushPid([Consume(s, in) EXCEPT
                                                       !.launched = Append(@, pid)], pid))]
                    /\ src' = Reveal(s, in)
    /\ UNCHANGED crashed
    /\ UNCHANGED tok

\* One pass of the loop of waitForParalellCommands (lines 107-111): waitpid
\* returns once the child has ended; for a child already reaped it returns
\* at once and exitCode keeps whatever it held.
DrainStep ==
    /\ ~crashed /\ Active # 0
    /\ LET k == Active
           s == sess[k]
       IN  /\ s.st = "Draining"
           /\ LET pid == NextToReap(s)
              IN  /\ procs[pid].st # "running"
                  /\ \E code \in ExitCodes :
                       /\ procs[pid].st = "exited" => code = procs[pid].code
                       /\ log' = Append(log, AwaitEvent(k, pid, code))
                  /\ procs' = Reap(procs, pid)
                  /\ sess' = AfterLoop([sess EXCEPT ![k].di = @ + 1,
                                                     ![k].awaited = Append(@, pid)], k)
    /\ UNCHANGED <<src, crashed>>
    /\ UNCHANGED tok

\* A child process ends.  The shell learns of it only through a wait, so the
\* end is taken while the shell is blocked in one (cp.wait or waitpid, for
\* this child or another).
ChildExit ==
    /\ ~crashed /\ Active # 0
    /\ sess[Active].st \in {"Waiting", "Draining"}
    /\ \E p \in 1..Len(procs) :
         /\ procs[p].st = "running"
         /\ procs' = [procs EXCEPT ![p].st = "exited",
                                   ![p].code = ExitCodeOf(procs[p].argv),
                                   ![p].rank = Cardinality(Ended(procs)) + 1]
    /\ UNCHANGED <<sess, log, src, crashed>>
    /\ UNCHANGED tok

Next ==
    \/ GetlineFails
    \/ ReadIgnore
    \/ ReadExit
    \/ ReadNested
    \/ ReadMalformedNested
    \/ ReadMalformedCrash
    \/ ReadEofBreak
    \/ ReadSerialCommand
    \/ SerialWait
    \/ ReadParallelCommand
    \/ DrainStep
    \/ ChildExit

Spec == Init /\ [][Next]_vars

\* The shell runs whenever it can, and every child ends.
FairSpec == Spec /\ WF_vars(Next)

(***************************************************************************)
(* split run on its own (lines 47-56): it is called with any line of at    *)
(* most MaxLen characters and returns its words.  The shell stands still.  *)
(***************************************************************************)
TokChars == {"a", "b", " ", "\t", Delim, Escape}

TokLines == UNION {[1..n -> TokChars] : n \in 0..MaxLen}

TokInit ==
    /\ sess = <<NewSession(FALSE, "> ", Stdin)>>
    /\ procs = <<>>
    /\ log = <<>>
    /\ src = [n \in {Stdin} \cup Files |->
                 [lines |-> <<>>, closed |-> FALSE, nl |-> TRUE]]
    /\ crashed = FALSE
    /\ inLine \in TokLines
    /\ outWords = <<>>
    /\ pc = "split"

CallSplit ==
    /\ pc = "split"
    /\ outWords' = split(inLine)
    /\ pc' = "return"
    /\ UNCHANGED <<sess, procs, log, src, crashed, inLine>>

TokNext == CallSplit

TokSpec == TokInit /\ [][TokNext]_vars

(***************************************************************************)
(* Vocabulary of the properties.                                           *)
(***************************************************************************)
Sessions == 1..Len(sess)
LogIdx == 1..Len(log)

LaunchIdx(k) == {i \in LogIdx : log[i].t = "launch" /\ log[i].sid = k}
AwaitIdx(k) == {i \in LogIdx : log[i].t = "await" /\ log[i].sid = k}

\* The pids session k has launched / awaited, in the order it did.
Launched(k) == sess[k].launched
Awaited(k) == sess[k].awaited

IsPrefix(a, b) == Len(a) <= Len(b) /\ SubSeq(b, 1, Len(a)) = a

\* The classes of the Line Classifier, read off the words of a line.
Classify(l) ==
    LET w == split(l)
    IN  IF w = <<>> THEN "ignore"
        ELSE IF FirstChar(w[1]) = "#" THEN "ignore"
        ELSE IF w[1] = wExit THEN "exit"
        ELSE IF w[1] \in {wSerial, wParallel} THEN "nested"
        ELSE "command"

ClassOf == [l \in Lines |-> Classify(l)]
WordsOf == [l \in Lines |-> split(l)]

IsIgnoreLine(l) == ClassOf[l] = "ignore"
IsExitLine(l) == ClassOf[l] = "exit"
IsNestedLine(l) == ClassOf[l] = "nested"
IsCommandLine(l) == ClassOf[l] = "command"

RECURSIVE CountCommands(_)
CountCommands(ls) ==
    IF ls = <<>> THEN 0
    ELSE (IF IsCommandLine(ls[1]) THEN 1 ELSE 0) + CountCommands(Tail(ls))

AllCommands(ls) == \A i \in 1..Len(ls) : IsCommandLine(ls[i])

LastLine(k) == sess[k].rd[Len(sess[k].rd)]

\* The processes of session k that have been launched and not yet reaped.
Outstanding(k) ==
    {p \in 1..Len(procs) : procs[p].owner = k /\ procs[p].st # "reaped"}

Done == sess[1].st = "Terminated"

(***************************************************************************)
(* C1.  In a parallel session every launch comes before every await: the   *)
(* session never blocks in a wait while it is reading, it has awaited      *)
(* nothing as long as it has not left its loop, and when its input was N   *)
(* newline-terminated command lines it has launched N processes by then.   *)
(***************************************************************************)
C1_LaunchAllBeforeAwait ==
    \A k \in Sessions :
        sess[k].parMode =>
            /\ sess[k].st # "Waiting"
            /\ sess[k].st \in {"Reading", "Nested"} => Awaited(k) = <<>>
            /\ \A i \in AwaitIdx(k), j \in LaunchIdx(k) : j < i
            /\ (AllCommands(sess[k].rd) /\ ~sess[k].eof)
                  => Len(Launched(k)) = Len(sess[k].rd)

C1_Witness ==
    \E k \in Sessions :
        /\ sess[k].parMode /\ sess[k].st = "Draining"
        /\ Len(sess[k].rd) >= 2 /\ AllCommands(sess[k].rd)
        /\ Len(Launched(k)) = Len(sess[k].rd)
        /\ Awaited(k) = <<>>

(***************************************************************************)
(* C2.  A parallel session reports exit statuses in launch order: the pids *)
(* it has awaited are always a prefix of the pids it launched, whatever    *)
(* the order in which the children ended.                                  *)
(***************************************************************************)
C2_ReportInLaunchOrder ==
    \A k \in Sessions :
        sess[k].parMode => IsPrefix(Awaited(k), Launched(k))

\* Two statuses reported in launch order although the second child ended first.
C2_Witness ==
    \E k \in Sessions :
        /\ sess[k].parMode
        /\ Len(Awaited(k)) >= 2
        /\ procs[Launched(k)[2]].rank < procs[Launched(k)[1]].rank

(***************************************************************************)
(* C3.  A serial session awaits each process before it reads on: whenever  *)
(* it is not blocked in cp.wait it has awaited exactly what it launched,   *)
(* while blocked exactly the last launch is missing, it never has two      *)
(* unreaped processes, and with N newline-terminated command lines read it *)
(* has made N launches.                                                    *)
(***************************************************************************)
C3_SerialPairs ==
    \A k \in Sessions :
        ~sess[k].parMode =>
            /\ sess[k].st # "Waiting" => Awaited(k) = Launched(k)
            /\ sess[k].st = "Waiting"
                  => Launched(k) = Append(Awaited(k), sess[k].wpid)
            /\ \A i \in LaunchIdx(k) :
                  \A j \in LaunchIdx(k) :
                      j > i => \E a \in AwaitIdx(k) :
                                  i < a /\ a < j /\ log[a].pid = log[i].pid
            /\ Cardinality(Outstanding(k)) <= 1
            /\ sess[k].parPids = <<>>
            /\ ~sess[k].eof => Len(Launched(k)) = CountCommands(sess[k].rd)

C3_Witness ==
    \E k \in Sessions :
        /\ ~sess[k].parMode /\ sess[k].st = "Terminated"
        /\ Len(sess[k].rd) = 2 /\ AllCommands(sess[k].rd)
        /\ Len(Launched(k)) = 2 /\ Awaited(k) = Launched(k)

(***************************************************************************)
(* C4.  As claimed: a parallel session that reads exit after launching     *)
(* processes is Terminated at once and awaits none of them.                *)
(***************************************************************************)
ExitRead(k) == sess[k].rd # <<>> /\ IsExitLine(LastLine(k))

C5_NestedReplaces ==
    \A k \in Sessions :
        /\ (sess[k].rd # <<>> /\ IsNestedLine(LastLine(k)) /\ ~crashed)
              => k < Len(sess)
        /\ k < Len(sess) =>
              /\ sess[k].rd # <<>> /\ IsNestedLine(LastLine(k))
              /\ \A i \in 1..(Len(sess[k].rd) - 1) : ~IsNestedLine(sess[k].rd[i])
              /\ sess[k + 1].parMode = (WordsOf[LastLine(k)][1] = wParallel)
              /\ Len(WordsOf[LastLine(k)]) >= 2
                    => sess[k + 1].src = OpenFile(WordsOf[LastLine(k)][2])
              /\ sess[k + 1].prompt = ""
              /\ sess[k].prompts = Len(sess[k].rd)
              /\ Len(Launched(k)) = CountCommands(sess[k].rd)
              /\ \A i \in LaunchIdx(k), j \in LogIdx : log[j].sid > k => i < j
              /\ sess[k + 1].st # "Terminated" => sess[k].st = "Nested"
              /\ sess[k + 1].st = "Terminated"
                    => sess[k].st \in {"Draining", "Terminated"}

\* A nested session ran a command of its file and ended, and the enclosing
\* session, which had more input to read, is Terminated.
C5_Witness ==
    \E k \in Sessions :
        /\ k < Len(sess)
        /\ Launched(k + 1) # <<>>
        /\ sess[k + 1].st = "Terminated" /\ sess[k].st = "Terminated"
        /\ sess[k].src = Stdin /\ ~src[Stdin].closed

(***************************************************************************)
(* C6.  An exit line is the last line its session reads: the session has   *)
(* left its loop, wrote no prompt and launched nothing after it, has no    *)
(* nested session, and in serial mode is Terminated with every command     *)
(* before the exit launched and awaited exactly once.                      *)
(***************************************************************************)
C6_ExitEndsSession ==
    \A k \in Sessions :
        \A i \in 1..Len(sess[k].rd) :
            IsExitLine(sess[k].rd[i]) =>
                /\ i = Len(sess[k].rd)
                /\ k = Len(sess)
                /\ sess[k].st \in {"Draining", "Terminated"}
                /\ sess[k].prompts = Len(sess[k].rd)
                /\ Len(Launched(k)) = CountCommands(sess[k].rd)
                /\ \A j \in LaunchIdx(k) : log[j].argv[1] # wExit
                /\ ~sess[k].parMode =>
                      /\ sess[k].st = "Terminated"
                      /\ Awaited(k) = Launched(k)
                      /\ Outstanding(k) = {}

C6_Witness ==
    \E k \in Sessions :
        /\ ~sess[k].parMode /\ Len(sess[k].rd) = 2
        /\ IsCommandLine(sess[k].rd[1]) /\ IsExitLine(sess[k].rd[2])
        /\ sess[k].st = "Terminated"
        /\ Len(Launched(k)) = 1 /\ Awaited(k) = Launched(k)
        /\ sess[k].src = Stdin /\ ~src[Stdin].closed

(***************************************************************************)
(* C7.  No pid is awaited twice; parPids of a parallel session is always   *)
(* exactly the pids it has launched, in launch order (it only grows); the  *)
(* session awaits nothing before it drains, while draining it has awaited  *)
(* the first di elements, and once Terminated it has awaited each element  *)
(* once, in order.                                                         *)
(***************************************************************************)
C7_DrainOnce ==
    /\ \A i \in LogIdx, j \in LogIdx :
          (i # j /\ log[i].t = "await" /\ log[j].t = "await")
              => log[i].pid # log[j].pid
    /\ \A k \in Sessions :
          sess[k].parMode =>
              /\ sess[k].parPids = Launched(k)
              /\ sess[k].st \in {"Reading", "Nested"} => sess[k].di = 0
              /\ Awaited(k) = SubSeq(sess[k].parPids, 1, sess[k].di)
              /\ sess[k].st = "Terminated" => Awaited(k) = sess[k].parPids

C7_Witness ==
    \E k \in Sessions :
        /\ sess[k].parMode /\ sess[k].st = "Terminated"
        /\ Len(sess[k].parPids) >= 2
        /\ Awaited(k) = sess[k].parPids

(***************************************************************************)
(* C8.  As claimed: the shell stops only when the top-level session is     *)
(* Terminated; until then it can always take a step (every child it waits  *)
(* for ends).                                                              *)
(***************************************************************************)
C8_AlwaysTerminates == Done \/ ENABLED Next

(***************************************************************************)
(* C9.  A line that is empty, all whitespace, or whose first word starts   *)
(* with # is ignored: checkIgnore holds of its words, and the step that    *)
(* reads it launches nothing, starts no nested session and leaves the      *)
(* session reading, with the prompt written again.                         *)
(***************************************************************************)
IgnoreSamples ==
    { <<>>, <<" ">>, <<"\t", " ">>, <<"#">>, <<"#", "a">>, <<" ", "#", "a">>,
      <<"#", " ", "e", "x", "i", "t">>, <<Delim, "#", " ", "a", Delim>> }

AllWhitespace(l) == \A i \in 1..Len(l) : l[i] \in Whitespace

ClaimedIgnore(l) ==
    AllWhitespace(l) \/ (split(l) # <<>> /\ FirstChar(split(l)[1]) = "#")

ClaimedIgnoreOf == [l \in IgnoreSamples \cup Lines |-> ClaimedIgnore(l)]

\* checkIgnore holds of the words of every line claimed ignorable.
IgnorableAreIgnored ==
    \A l \in IgnoreSamples \cup Lines :
        ClaimedIgnoreOf[l] => checkIgnore(split(l))

ReadsIgnorable(k) ==
    /\ k \in Sessions
    /\ Len(sess'[k].rd) = Len(sess[k].rd) + 1
    /\ ClaimedIgnoreOf[sess'[k].rd[Len(sess'[k].rd)]]

C9_IgnoredLines ==
    /\ []IgnorableAreIgnored
    /\ [][\A k \in Sessions :
             ReadsIgnorable(k) =>
                 /\ log' = log /\ procs' = procs /\ ~crashed'
                 /\ Len(sess') = Len(sess)
                 /\ sess'[k].st = "Reading"
                 /\ sess'[k].prompts = sess[k].prompts + 1]_vars

\* A session has read an ignorable line and then went on to launch a command.
C9_Witness ==
    \E k \in Sessions :
        /\ Len(sess[k].rd) = 2
        /\ ClaimedIgnoreOf[sess[k].rd[1]] /\ IsCommandLine(sess[k].rd[2])
        /\ Len(Launched(k)) = 1

(***************************************************************************)
(* C10.  As claimed: the text printed for a launched command is its words  *)
(* joined by single spaces.                                                *)
(***************************************************************************)
RECURSIVE JoinSpaces(_)
JoinSpaces(words) ==
    IF words = <<>> THEN <<>>
    ELSE IF Len(words) = 1 THEN words[1]
    ELSE words[1] \o <<" ">> \o JoinSpaces(Tail(words))

C10_TextIsJoin ==
    \A i \in LogIdx :
        log[i].t = "launch" => log[i].text = JoinSpaces(log[i].argv)

(***************************************************************************)
(* C11.  As claimed: a SERIAL or PARALLEL line without a path word is a     *)
(* recoverable error: the shell survives it, no nested session is started  *)
(* for it, and the session goes on reading.                                *)
(***************************************************************************)
IsMalformedDirective(l) == IsNestedLine(l) /\ Len(WordsOf[l]) = 1

C11_MalformedRecoverable ==
    \A k \in Sessions :
        (sess[k].rd # <<>> /\ IsMalformedDirective(LastLine(k)))
            => /\ ~crashed
               /\ k = Len(sess)
               /\ sess[k].st = "Reading"

(***************************************************************************)
(* C12.  The nested session of a directive whose path names no file reads  *)
(* no line, launches and awaits nothing, writes its (empty) prompt once,   *)
(* and ends at its first read; the enclosing session then leaves its loop  *)
(* as after any nested session.                                            *)
(***************************************************************************)
NamesNoFile(l) ==
    /\ IsNestedLine(l) /\ Len(WordsOf[l]) >= 2
    /\ \A f \in Files : WordsOf[l][2] # <<f>>

C12_MissingFileEmptySession ==
    \A k \in Sessions :
        (k < Len(sess) /\ NamesNoFile(LastLine(k))) =>
            /\ sess[k + 1].rd = <<>>
            /\ Launched(k + 1) = <<>> /\ Awaited(k + 1) = <<>>
            /\ sess[k + 1].parPids = <<>>
            /\ \A i \in LogIdx : log[i].sid # k + 1
            /\ k + 1 = Len(sess)
            /\ sess[k + 1].st \in {"Reading", "Terminated"}
            /\ sess[k + 1].st = "Reading" => sess[k + 1].prompts = 1
            /\ sess[k + 1].st = "Reading" => sess[k].st = "Nested"
            /\ sess[k + 1].st = "Terminated"
                  => sess[k].st \in {"Draining", "Terminated"}

\* The nested session over a missing file has ended, and so has the shell.
C12_Witness ==
    \E k \in Sessions :
        /\ k < Len(sess) /\ NamesNoFile(LastLine(k))
        /\ sess[k + 1].st = "Terminated"
        /\ Done /\ ~crashed

(***************************************************************************)
(* C13.  Each session has its own parPids: it is empty as long as the      *)
(* session has launched nothing, holds only pids of processes the session  *)
(* launched itself, a session awaits only its own processes and, once      *)
(* Terminated in parallel mode, has awaited exactly its parPids; no step   *)
(* taken while a nested session runs changes the parPids of an enclosing   *)
(* session or what it has awaited.                                         *)
(***************************************************************************)
OwnPendingSet ==
    \A k \in Sessions :
        /\ \A i \in 1..Len(sess[k].parPids) :
              procs[sess[k].parPids[i]].owner = k
        /\ \A i \in 1..Len(Awaited(k)) : procs[Awaited(k)[i]].owner = k
        /\ Launched(k) = <<>> => sess[k].parPids = <<>>
        /\ (sess[k].parMode /\ sess[k].st = "Terminated")
              => Awaited(k) = sess[k].parPids

C13_OwnPendingSet ==
    /\ []OwnPendingSet
    /\ [][\A k \in Sessions :
             sess[k].st = "Nested" =>
                 /\ sess'[k].parPids = sess[k].parPids
                 /\ sess'[k].awaited = sess[k].awaited
                 /\ sess'[k].di = sess[k].di]_vars

\* A nested parallel session has drained its own process while the enclosing
\* parallel session still holds an unawaited one.
C13_Witness ==
    \E k \in Sessions :
        /\ k < Len(sess)
        /\ sess[k].parMode /\ sess[k].parPids # <<>> /\ Awaited(k) = <<>>
        /\ sess[k + 1].parMode /\ sess[k + 1].parPids # <<>>
        /\ Awaited(k + 1) = sess[k + 1].parPids

(***************************************************************************)
(* C14.  A line made of non-empty words without whitespace, quote or       *)
(* backslash, joined by single spaces, splits into exactly those words in  *)
(* order: one more word than the line has spaces, every word non-empty and *)
(* free of spaces, and the words joined by single spaces give the line     *)
(* back.  An empty or all-whitespace line splits into no word.             *)
(***************************************************************************)
PlainChar(c) == c \notin Whitespace \cup {Delim, Escape}

\* l is a sequence of one or more plain words joined by single spaces.
IsJoinOfPlainWords(l) ==
    /\ l # <<>>
    /\ \A i \in 1..Len(l) : PlainChar(l[i]) \/ l[i] = " "
    /\ l[1] # " " /\ l[Len(l)] # " "
    /\ \A i \in 1..(Len(l) - 1) : ~(l[i] = " " /\ l[i + 1] = " ")

SpacesIn(l) == Cardinality({i \in 1..Len(l) : l[i] = " "})

C14_SplitRoundTrip ==
    pc = "return" =>
        /\ IsJoinOfPlainWords(inLine) =>
              /\ Len(outWords) = SpacesIn(inLine) + 1
              /\ \A i \in 1..Len(outWords) :
                    /\ outWords[i] # <<>>
                    /\ \A j \in 1..Len(outWords[i]) : PlainChar(outWords[i][j])
              /\ JoinSpaces(outWords) = inLine
        /\ AllWhitespace(inLine) => outWords = <<>>

\* split has returned the three words of a line with a repeated word.
C14_Witness ==
    /\ pc = "return"
    /\ inLine = <<"a", " ", "b", " ", "a">>
    /\ outWords = << <<"a">>, <<"b">>, <<"a">> >>

(***************************************************************************)
(* C15.  As claimed: every Command line a session has read has been        *)
(* dispatched, also the last line of a source that ends without a newline. *)
(***************************************************************************)
C15_EveryCommandDispatched ==
    \A k \in Sessions :
        Len(Launched(k)) = CountCommands(sess[k].rd)

(***************************************************************************)
(* C16.  As claimed: split returns only non-empty words, so the first word *)
(* of a line classified as a command is never empty.                       *)
(***************************************************************************)
C16_TokensNonEmpty ==
    pc = "return" =>
        /\ \A i \in 1..Len(outWords) : outWords[i] # <<>>
        /\ (outWords # <<>> /\ ~checkIgnore(outWords)
               /\ processFirstWord(outWords) = "command")
              => outWords[1] # <<>>

(***************************************************************************)
(* C17.  A session that has returned has awaited every process it launched *)
(* exactly once, however it ended (end of input, exit, or a directive);    *)
(* when the top-level session has returned no process is left unreaped.    *)
(***************************************************************************)
AwaitsOf(k, p) == {i \in AwaitIdx(k) : log[i].pid = p}

C17_AllAwaitedAtReturn ==
    /\ \A k \in Sessions :
          sess[k].st = "Terminated" =>
              /\ Awaited(k) = Launched(k)
              /\ Outstanding(k) = {}
              /\ \A i \in 1..Len(Launched(k)) :
                    Cardinality(AwaitsOf(k, Launched(k)[i])) = 1
    /\ Done => \A p \in 1..Len(procs) : procs[p].st = "reaped"

\* A parallel session that launched a process and then met a directive has
\* returned, and so has the shell, with a process of the nested session too.
C17_Witness ==
    /\ Done
    /\ \E k \in Sessions :
          /\ k < Len(sess)
          /\ sess[k].parMode /\ Launched(k) # <<>>
          /\ IsNestedLine(LastLine(k))
          /\ Launched(k + 1) # <<>>

(***************************************************************************)
(* C18.  A parallel session that holds pids and meets a directive awaits   *)
(* none of them while the nested session runs: as long as the nested       *)
(* session has not returned the enclosing one has awaited nothing and its  *)
(* processes are unreaped; every event of a deeper session comes before    *)
(* the first await of the enclosing session, which then awaits its pids in *)
(* launch order.                                                           *)
(***************************************************************************)
C18_NestedBeforeDrain ==
    \A k \in Sessions :
        (sess[k].parMode /\ k < Len(sess)) =>
            /\ sess[k + 1].st # "Terminated" =>
                  /\ Awaited(k) = <<>>
                  /\ \A i \in 1..Len(sess[k].parPids) :
                        procs[sess[k].parPids[i]].st # "reaped"
            /\ \A i \in AwaitIdx(k), j \in LogIdx : log[j].sid > k => j < i
            /\ IsPrefix(Awaited(k), Launched(k))

\* The enclosing parallel session has drained its pids after the nested
\* session launched and awaited one of its own.
C18_Witness ==
    \E k \in Sessions :
        /\ sess[k].parMode /\ k < Len(sess)
        /\ Awaited(k + 1) # <<>>
        /\ Len(Launched(k)) >= 1 /\ Awaited(k) = Launched(k)
        /\ sess[k].st = "Terminated"

====
